---- MODULE Spec2Model ----
(***************************************************************************)
(* Model of the Terraform workspace store of upjet                         *)
(* (pkg/terraform/store.go): WorkspaceStore.Workspace, WorkspaceStore      *)
(* .Remove and Setup.filterSensitiveInformation.                           *)
(*                                                                         *)
(* Strings are sequences of one-character strings, so that substring       *)
(* search and strings.ReplaceAll are computed as the Go library computes   *)
(* them.  Every call of Workspace or Remove is executed by a goroutine     *)
(* (a member of Procs); each statement of the source that touches the      *)
(* filesystem, the provider runner, the mutex, the map or a command is one *)
(* step, so that the steps of overlapping calls interleave.                *)
(***************************************************************************)
EXTENDS Integers, Sequences, FiniteSets, TLC

(* ------------------------------ bounds --------------------------------- *)

\* Total number of store calls (Workspace or Remove) started in a behaviour.
MaxCalls == 3

\* Injected failures (I/O errors, a failing Start or init) in a behaviour; a write
\* into a directory that does not exist fails without counting.
MaxFaults == 1

\* Longest input string handed to filterSensitiveInformation.
MaxLen == 3

\* Longest string value of a configuration body.
MaxValLen == 2

(* ------------------------------ strings -------------------------------- *)

\* The literal "REDACTED" of store.go line 174.
Marker == <<"R", "E", "D", "A", "C", "T", "E", "D">>

\* strings.HasPrefix(s[i-1:], sub)
HasPrefixAt(s, sub, i) ==
    /\ i + Len(sub) - 1 <= Len(s)
    /\ SubSeq(s, i, i + Len(sub) - 1) = sub

\* strings.Contains(s, sub)
Contains(s, sub) == \E i \in 1..(Len(s) + 1) : HasPrefixAt(s, sub, i)

RECURSIVE ReplaceFrom(_, _, _, _)
\* strings.ReplaceAll for a non-empty old: the non-overlapping occurrences of
\* old are replaced from left to right, the search resuming after each match.
ReplaceFrom(s, old, new, i) ==
    IF i > Len(s) THEN <<>>
    ELSE IF HasPrefixAt(s, old, i)
         THEN new \o ReplaceFrom(s, old, new, i + Len(old))
         ELSE <<s[i]>> \o ReplaceFrom(s, old, new, i + 1)

ReplaceAll(s, old, new) == ReplaceFrom(s, old, new, 1)

RECURSIVE StringsUpTo(_, _)
\* All strings over alphabet of length at most n.
StringsUpTo(alphabet, n) ==
    IF n = 0 THEN {<<>>}
    ELSE LET shorter == StringsUpTo(alphabet, n - 1)
         IN  shorter \cup {Append(s, c) : s \in {t \in shorter : Len(t) = n - 1},
                                          c \in alphabet}

(* ------------------------- the store's world --------------------------- *)

\* Goroutines calling the store.
Procs == {"p1", "p2"}

\* Resource identities (tr.GetUID()).
UIDs == {"u1", "u2"}

\* The Setups a caller passes (type Setup): a configuration body, whose values
\* are strings or values of another type, and extra environment variables.
SetupIds == {"s1", "s2"}

StrVal(s) == [kind |-> "string", s |-> s]

IntVal == [kind |-> "int", s |-> <<>>]

SetupOf(id) ==
    IF id = "s1"
    THEN [Configuration |-> [token |-> StrVal(<<"k", "1">>), retries |-> IntVal],
          Env |-> << <<"X", "=", "1">> >>]
    ELSE [Configuration |-> [token |-> StrVal(<<"k", "2">>), retries |-> IntVal],
          Env |-> << <<"X", "=", "2">>, <<"Y", "=", "2">> >>]

\* The non-empty string values of a configuration body: what must be redacted.
Secrets(cfg) ==
    {cfg[k].s : k \in {j \in DOMAIN cfg : cfg[j].kind = "string" /\ cfg[j].s # <<>>}}

\* What `terraform init` may print for a call made with Setup id: it may echo
\* the provider configuration.
InitOutputs(id) == {<<"o", "k">>, <<"t", "=">> \o SetupOf(id).Configuration.token.s}

\* Values providerRunner.Start may return.
Attachments == {"a1", "a2"}

\* The nil *Workspace and the nil error.
NoWs == 0

Nil == <<>>

\* errors.Wrap(err, msg): nil stays nil, otherwise "msg: cause".
Wrap(err, msg) == IF err = Nil THEN Nil ELSE <<msg, ": ">> \o err

\* errors.Wrapf(err, "cannot init workspace: %s", out)
WrapInit(err, out) ==
    IF err = Nil THEN Nil ELSE <<"cannot init workspace: ">> \o out \o <<": ">> \o err

\* fmt.Sprintf(fmtEnv, envReattachConfig, attachmentConfig)
ReattachVar(attach) == <<"TF_REATTACH_PROVIDERS", "=", attach>>

\* A directory that does not exist; of an existing one, the files it holds.
EmptyDir == [dir |-> FALSE, tfstate |-> FALSE, maintf |-> FALSE, lock |-> FALSE]

\* The arguments and locals of a call; inserted is history: whether the call
\* took the branch of store.go 132-135 and put a new entry into the registry.
\* No command: the exec.Cmd of a call that has built none.
NoCmd == [name |-> <<>>, dir |-> "none", env |-> <<>>]

\* w.executor.CommandContext(ctx, name...): a command with no working
\* directory and no environment set.
CommandContext(name) == [name |-> name, dir |-> "none", env |-> <<>>]

\* cmd.SetDir(dir)
SetDir(cmd, dir) == [cmd EXCEPT !.dir = dir]

NoLocals ==
    [op |-> "none", uid |-> "u1", setup |-> "s1", statres |-> "none",
     attach |-> "none", w |-> NoWs, lstat |-> "none", cmd |-> NoCmd, inserted |-> FALSE]

\* No call returned in the last step.
NoEvent == [p |-> "none", call |-> NoLocals, ops |-> <<>>, w |-> NoWs, err |-> Nil, logged |-> {}]

VARIABLES
    store,      \* ws.store: UID -> index into heap, or NoWs when absent
    heap,       \* the Workspace objects ever constructed by NewWorkspace
    mu,         \* ws.mu: the goroutine holding it, or "free"
    fs,         \* ws.fs: per identity, its directory and the files in it
    pc,         \* each goroutine's position in its call
    loc,        \* each goroutine's call arguments and local variables
    ops,        \* the filesystem and process steps each running call has executed
    ev,         \* the call that returned in the last step, with what it returned
                \* and logged; NoEvent when the last step returned from no call
    ncalls,     \* calls started so far
    created,    \* per identity, how often NewWorkspace was executed
    rmCalled,   \* per identity, whether Remove was ever called for it
    got,        \* per identity, the workspaces Workspace has returned
    faults,     \* failures injected so far
    fcfg,       \* filterSensitiveInformation: ts.Configuration
    fin,        \* filterSensitiveInformation: the argument s
    fcur,       \* filterSensitiveInformation: the variable s
    fleft,      \* filterSensitiveInformation: the keys the range loop has yet to visit
    fpc,        \* filterSensitiveInformation: "idle", "loop" or "done"
    eerr,       \* package errors: the error value a classification function is given
    eres        \* package errors: the function called on eerr and what it returned

storeVars == <<store, heap, mu, fs, pc, loc, ops, ev, ncalls, created, rmCalled, got, faults>>

filterVars == <<fcfg, fin, fcur, fleft, fpc>>

errVars == <<eerr, eres>>

vars == <<storeVars, filterVars, errVars>>

hist == <<created, rmCalled, got>>

\* The keys of the configuration bodies filterSensitiveInformation is tried on.
Keys == {"k1", "k2"}

\* NewWorkspaceStore (store.go 71-84): an empty registry.
StoreInit ==
    /\ store = [u \in UIDs |-> NoWs]
    /\ heap = <<>>
    /\ mu = "free"
    /\ fs = [u \in UIDs |-> EmptyDir]
    /\ pc = [p \in Procs |-> "idle"]
    /\ loc = [p \in Procs |-> NoLocals]
    /\ ops = [p \in Procs |-> <<>>]
    /\ ev = NoEvent
    /\ ncalls = 0
    /\ created = [u \in UIDs |-> 0]
    /\ rmCalled = [u \in UIDs |-> FALSE]
    /\ got = [u \in UIDs |-> {}]
    /\ faults = 0

\* No call of filterSensitiveInformation is running.
FilterIdle ==
    /\ fcfg = [k \in Keys |-> IntVal]
    /\ fin = <<>>
    /\ fcur = <<>>
    /\ fleft = {}
    /\ fpc = "idle"

\* No classification function of package errors was called.
NoResult == [fn |-> "none", kind |-> "none", target |-> <<>>, ok |-> FALSE, state |-> "none"]

ErrIdle ==
    /\ eerr = <<>>
    /\ eres = NoResult

Init == StoreInit /\ FilterIdle /\ ErrIdle

\* p goes on to `next` with locals l, having executed the external steps `done`.
Goto(p, l, done, next) ==
    /\ pc' = [pc EXCEPT ![p] = next]
    /\ loc' = [loc EXCEPT ![p] = l]
    /\ ops' = [ops EXCEPT ![p] = @ \o done]
    /\ ev' = NoEvent
    /\ UNCHANGED <<faults, filterVars, errVars>>

\* p's call returns (w, err), having executed the external steps `done` and
\* logged the entries `logged` in this step.
Return(p, l, done, w, err, logged) ==
    /\ ev' = [p |-> p, call |-> l, ops |-> ops[p] \o done, w |-> w, err |-> err,
              logged |-> logged]
    /\ pc' = [pc EXCEPT ![p] = "idle"]
    /\ loc' = [loc EXCEPT ![p] = NoLocals]
    /\ ops' = [ops EXCEPT ![p] = <<>>]
    /\ UNCHANGED <<filterVars, errVars>>

\* p's call returns without a failure having been injected in this step.
Done(p, l, done, w, err, logged) ==
    /\ Return(p, l, done, w, err, logged)
    /\ UNCHANGED faults

\* Mutant of Fail: the step that failed is tried again.
FailAndRetry(p, l, name, err) ==
    /\ faults < MaxFaults
    /\ faults' = faults + 1
    /\ pc' = pc
    /\ loc' = [loc EXCEPT ![p] = l]
    /\ ops' = [ops EXCEPT ![p] = Append(@, name)]
    /\ ev' = NoEvent
    /\ UNCHANGED <<filterVars, errVars>>

\* The step `name` of p's call fails (an injected failure) and the call
\* returns (nil, err).
Fail(p, l, name, err) ==
    /\ faults < MaxFaults
    /\ faults' = faults + 1
    /\ Return(p, l, <<name>>, NoWs, err, {})

\* Idle goroutines are interchangeable, and so are identities never used: a
\* call is started by p1 unless p1 is busy, and the first call is for u1.
Canonical(p, u) ==
    /\ p # "p1" => pc["p1"] # "idle"
    /\ ncalls = 0 => u = "u1"

\* A goroutine calls ws.Workspace(ctx, c, tr, ts, cfg).
CallWorkspace(p, u, s) ==
    /\ pc[p] = "idle"
    /\ Canonical(p, u)
    /\ ncalls < MaxCalls
    /\ ncalls' = ncalls + 1
    /\ Goto(p, [NoLocals EXCEPT !.op = "Workspace", !.uid = u, !.setup = s], <<>>, "w_mkdir")
    /\ UNCHANGED <<store, heap, mu, fs, hist>>

\* A goroutine calls ws.Remove(obj).
CallRemove(p, u) ==
    /\ pc[p] = "idle"
    /\ Canonical(p, u)
    /\ ncalls < MaxCalls
    /\ ncalls' = ncalls + 1
    /\ Goto(p, [NoLocals EXCEPT !.op = "Remove", !.uid = u], <<>>, "r_lock")
    /\ rmCalled' = [rmCalled EXCEPT ![u] = TRUE]
    /\ UNCHANGED <<store, heap, mu, fs, created, got>>

\* What Stat says of a file: nil when it exists, an IsNotExist error when it
\* does not, or another error (a permission or I/O error) at any time.
StatOutcomes(present) == {IF present THEN "exists" ELSE "notexist", "error"}

\* ws.fs.MkdirAll(dir, os.ModePerm): nil when dir is already a directory.
MkdirAllOutcomes(exists) == IF exists THEN {"ok"} ELSE {"ok", "error"}

\* store.go 105-108
MkdirAll(p) ==
    /\ pc[p] = "w_mkdir"
    /\ \E r \in MkdirAllOutcomes(fs[loc[p].uid].dir) :
          \/ /\ r = "ok"
             /\ fs' = [fs EXCEPT ![loc[p].uid].dir = TRUE]
             /\ Goto(p, loc[p], <<"MkdirAll">>, "w_fp")
          \/ /\ r = "error"
             /\ Fail(p, loc[p], "MkdirAll",
                     Wrap(<<"EACCES">>, "cannot create directory for workspace"))
             /\ UNCHANGED fs
    /\ UNCHANGED <<store, heap, mu, ncalls, hist>>

\* store.go 109-112
NewFileProducer(p) ==
    /\ pc[p] = "w_fp"
    /\ \/ Goto(p, loc[p], <<"NewFileProducer">>, "w_stat")
       \/ Fail(p, loc[p], "NewFileProducer",
               Wrap(<<"EINVAL">>, "cannot create a new file producer"))
    /\ UNCHANGED <<store, heap, mu, fs, ncalls, hist>>

\* Mutant of NeedsTFState: the state file is reconstructed on every call.
NeedsTFStateAlways(statres) == TRUE

\* store.go 117: the state file is reconstructed when Stat reported IsNotExist.
NeedsTFState(statres) == statres = "notexist"

\* store.go 113-117
StatState(p) ==
    /\ pc[p] = "w_stat"
    /\ \E r \in StatOutcomes(fs[loc[p].uid].dir /\ fs[loc[p].uid].tfstate) :
          LET l == [loc[p] EXCEPT !.statres = r]
          IN  IF r = "error"
              THEN Fail(p, l, "StatState",
                        Wrap(<<"EIO">>, "cannot stat terraform.tfstate file"))
              ELSE Goto(p, l, <<"StatState">>,
                        IF NeedsTFState(r) THEN "w_wstate" ELSE "w_main")
    /\ UNCHANGED <<store, heap, mu, fs, ncalls, hist>>

\* store.go 118-120: fp.WriteTFState writes the reconstructed terraform.tfstate
\* into the directory, which must exist.
WriteTFState(p) ==
    /\ pc[p] = "w_wstate"
    /\ \/ /\ fs[loc[p].uid].dir
          /\ fs' = [fs EXCEPT ![loc[p].uid].tfstate = TRUE]
          /\ Goto(p, loc[p], <<"WriteTFState">>, "w_main")
       \/ /\ fs[loc[p].uid].dir
          /\ Fail(p, loc[p], "WriteTFState", Wrap(<<"EIO">>, "cannot reproduce tfstate file"))
          /\ UNCHANGED fs
       \/ /\ ~fs[loc[p].uid].dir
          /\ Done(p, loc[p], <<"WriteTFState">>, NoWs,
                  Wrap(<<"ENOENT">>, "cannot reproduce tfstate file"), {})
          /\ UNCHANGED fs
    /\ UNCHANGED <<store, heap, mu, ncalls, hist>>

\* store.go 122-124: fp.WriteMainTF writes the main file into the directory.
WriteMainTF(p) ==
    /\ pc[p] = "w_main"
    /\ \/ /\ fs[loc[p].uid].dir
          /\ fs' = [fs EXCEPT ![loc[p].uid].maintf = TRUE]
          /\ Goto(p, loc[p], <<"WriteMainTF">>, "w_start")
       \/ /\ fs[loc[p].uid].dir
          /\ Fail(p, loc[p], "WriteMainTF", Wrap(<<"EIO">>, "cannot write main tf file"))
          /\ UNCHANGED fs
       \/ /\ ~fs[loc[p].uid].dir
          /\ Done(p, loc[p], <<"WriteMainTF">>, NoWs,
                  Wrap(<<"ENOENT">>, "cannot write main tf file"), {})
          /\ UNCHANGED fs
    /\ UNCHANGED <<store, heap, mu, ncalls, hist>>

\* store.go 126-129: the error of Start is returned as it is.
Start(p) ==
    /\ pc[p] = "w_start"
    /\ \/ \E a \in Attachments :
             Goto(p, [loc[p] EXCEPT !.attach = a], <<"Start">>, "w_lock")
       \/ Fail(p, loc[p], "Start", <<"cannot start provider">>)
    /\ UNCHANGED <<store, heap, mu, fs, ncalls, hist>>

\* Mutant of MustConstruct: the entry is constructed and inserted without a lookup.
MustConstructAlways(entry) == TRUE

\* store.go 132: NewWorkspace is executed when the lookup found no entry.
MustConstruct(entry) == entry = NoWs

\* NewWorkspace(dir, WithLogger(l), WithExecutor(ws.executor), WithFilterFn(...))
\* The fields calls and initFailed are history: the Setup and the attachment
\* value of every call that assigned the environment of this workspace, and
\* whether a `terraform init` of a call has failed in it.
NewWorkspace(dir, setup) ==
    [dir |-> dir, logger |-> dir, executor |-> "ws.executor", filter |-> setup, env |-> <<>>,
     calls |-> {}, initFailed |-> FALSE]

\* store.go 130-135: ws.mu is acquired, and the entry is looked up and, when
\* there is none, constructed and inserted.
LockLookup(p) ==
    /\ pc[p] = "w_lock"
    /\ mu = "free"
    /\ mu' = p
    /\ IF MustConstruct(store[loc[p].uid])
       THEN /\ heap' = Append(heap, NewWorkspace(loc[p].uid, loc[p].setup))
            /\ store' = [store EXCEPT ![loc[p].uid] = Len(heap) + 1]
            /\ created' = [created EXCEPT ![loc[p].uid] = @ + 1]
       ELSE UNCHANGED <<heap, store, created>>
    /\ Goto(p, [loc[p] EXCEPT !.w = store'[loc[p].uid],
                              !.inserted = MustConstruct(store[loc[p].uid])],
            <<>>, "w_unlock")
    /\ UNCHANGED <<fs, ncalls, rmCalled, got>>

\* store.go 136
Unlock(p) ==
    /\ pc[p] = "w_unlock"
    /\ mu = p
    /\ mu' = "free"
    /\ Goto(p, loc[p], <<>>, "w_lstat")
    /\ UNCHANGED <<store, heap, fs, ncalls, hist>>

\* store.go 137-140
StatLock(p) ==
    /\ pc[p] = "w_lstat"
    /\ \E r \in StatOutcomes(fs[loc[p].uid].dir /\ fs[loc[p].uid].lock) :
          LET l == [loc[p] EXCEPT !.lstat = r]
          IN  IF r = "error"
              THEN Fail(p, l, "StatLock", Wrap(<<"EIO">>, "cannot stat init lock file"))
              ELSE Goto(p, l, <<"StatLock">>, "w_env1")
    /\ UNCHANGED <<store, heap, mu, fs, ncalls, hist>>

\* Mutant of SetEnv: the redaction function is replaced together with the
\* environment.
SetEnvAndFilter(p) ==
    /\ pc[p] = "w_env1"
    /\ heap' = [heap EXCEPT ![loc[p].w].env = SetupOf(loc[p].setup).Env,
                            ![loc[p].w].filter = loc[p].setup,
                            ![loc[p].w].calls = @ \cup {<<loc[p].setup, loc[p].attach>>}]
    /\ Goto(p, loc[p], <<>>, "w_env2")
    /\ UNCHANGED <<store, mu, fs, ncalls, hist>>

\* store.go 141: w.env = ts.Env
SetEnv(p) ==
    /\ pc[p] = "w_env1"
    /\ heap' = [heap EXCEPT ![loc[p].w].env = SetupOf(loc[p].setup).Env,
                            ![loc[p].w].calls = @ \cup {<<loc[p].setup, loc[p].attach>>}]
    /\ Goto(p, loc[p], <<>>, "w_env2")
    /\ UNCHANGED <<store, mu, fs, ncalls, hist>>

\* store.go 142: w.env = append(w.env, fmt.Sprintf(fmtEnv, ...))
AppendEnv(p) ==
    /\ pc[p] = "w_env2"
    /\ heap' = [heap EXCEPT ![loc[p].w].env = Append(@, ReattachVar(loc[p].attach))]
    /\ Goto(p, loc[p], <<>>, "w_check")
    /\ UNCHANGED <<store, mu, fs, ncalls, hist>>

\* Mutant of NeedsInit: init is run on every call.
NeedsInitAlways(lstat) == TRUE

\* store.go 145: init is needed when Stat of .terraform.lock.hcl said IsNotExist.
NeedsInit(lstat) == lstat = "notexist"

\* store.go 145-147: the workspace is initialized already.
InitSkip(p) ==
    /\ pc[p] = "w_check"
    /\ ~NeedsInit(loc[p].lstat)
    /\ Done(p, loc[p], <<>>, loc[p].w, Nil, {})
    /\ got' = [got EXCEPT ![loc[p].uid] = @ \cup {loc[p].w}]
    /\ UNCHANGED <<store, heap, mu, fs, ncalls, created, rmCalled>>

\* store.go 148-149: the command of Workspace, as it stands when
\* CombinedOutput starts it: its directory is set, its environment is not.
InitCommand(w) == SetDir(CommandContext(<<"terraform", "init", "-input=false">>), w.dir)

\* store.go 148-150: `terraform init -input=false` is started in w.dir.
InitStart(p) ==
    /\ pc[p] = "w_check"
    /\ NeedsInit(loc[p].lstat)
    /\ Goto(p, [loc[p] EXCEPT !.cmd = InitCommand(heap[loc[p].w])], <<"Init">>, "w_initrun")
    /\ UNCHANGED <<store, heap, mu, fs, ncalls, hist>>

\* store.go 151: l.Debug("init ended", "out", string(out))
InitLogEntry(out) == out

\* store.go 152: errors.Wrapf(err, "cannot init workspace: %s", string(out))
InitError(err, out) == WrapInit(err, out)

\* Mutant of InitResult: no workspace is returned with the error of init.
InitResultNilOnError(w, err) == IF err = Nil THEN w ELSE NoWs

\* store.go 152: w is returned, with the error of init or with nil.
InitResult(w, err) == w

\* store.go 150-152: the command ends. A successful init leaves
\* .terraform.lock.hcl in the directory, which it needs to exist.
InitEnd(p) ==
    /\ pc[p] = "w_initrun"
    /\ \E out \in InitOutputs(loc[p].setup) :
       \E err \in {Nil, <<"exit status 1">>} :
          /\ err = Nil => fs[heap[loc[p].w].dir].dir
          /\ fs' = IF err = Nil THEN [fs EXCEPT ![heap[loc[p].w].dir].lock = TRUE] ELSE fs
          /\ IF err # Nil /\ fs[heap[loc[p].w].dir].dir
             THEN faults < MaxFaults /\ faults' = faults + 1
             ELSE UNCHANGED faults
          /\ heap' = IF err = Nil THEN heap ELSE [heap EXCEPT ![loc[p].w].initFailed = TRUE]
          /\ Return(p, loc[p], <<>>, InitResult(loc[p].w, err), InitError(err, out),
                    {InitLogEntry(out)})
    /\ got' = [got EXCEPT ![loc[p].uid] = @ \cup {loc[p].w}]
    /\ UNCHANGED <<store, mu, ncalls, created, rmCalled>>

\* store.go 158
RLock(p) ==
    /\ pc[p] = "r_lock"
    /\ mu = "free"
    /\ mu' = p
    /\ Goto(p, loc[p], <<>>, "r_lookup")
    /\ UNCHANGED <<store, heap, fs, ncalls, hist>>

\* Mutant of RLookup: the directory of the identity is removed also when the
\* registry has no entry for it.
RLookupRemovesAnyway(p) ==
    /\ pc[p] = "r_lookup"
    /\ mu = p
    /\ LET l == [loc[p] EXCEPT !.w = store[loc[p].uid]]
       IN  IF l.w = NoWs
           THEN /\ Done(p, l, <<"RemoveAll">>, NoWs, Nil, {})
                /\ fs' = [fs EXCEPT ![loc[p].uid] = EmptyDir]
                /\ mu' = "free"
           ELSE /\ Goto(p, l, <<>>, "r_rm")
                /\ UNCHANGED <<mu, fs>>
    /\ UNCHANGED <<store, heap, ncalls, hist>>

\* store.go 159-163: the deferred Unlock runs when Remove returns.
RLookup(p) ==
    /\ pc[p] = "r_lookup"
    /\ mu = p
    /\ LET l == [loc[p] EXCEPT !.w = store[loc[p].uid]]
       IN  IF l.w = NoWs
           THEN /\ Done(p, l, <<>>, NoWs, Nil, {})
                /\ mu' = "free"
           ELSE /\ Goto(p, l, <<>>, "r_rm")
                /\ UNCHANGED mu
    /\ UNCHANGED <<store, heap, fs, ncalls, hist>>

\* Mutant of RemoveAllFailed: the entry is erased before the error is returned.
RemoveAllFailedForgets(p) ==
    /\ Fail(p, loc[p], "RemoveAll", Wrap(<<"EBUSY">>, "cannot remove workspace folder"))
    /\ mu' = "free"
    /\ store' = [store EXCEPT ![loc[p].uid] = NoWs]
    /\ UNCHANGED fs

\* store.go 165: on an error of RemoveAll, Remove returns it wrapped, before
\* the delete of line 167; the registry is as it was.
RemoveAllFailed(p) ==
    /\ Fail(p, loc[p], "RemoveAll", Wrap(<<"EBUSY">>, "cannot remove workspace folder"))
    /\ mu' = "free"
    /\ UNCHANGED <<fs, store>>

\* store.go 164-166: ws.fs.RemoveAll(w.dir), with ws.mu held.
RRemoveAll(p) ==
    /\ pc[p] = "r_rm"
    /\ mu = p
    /\ \/ /\ fs' = [fs EXCEPT ![heap[loc[p].w].dir] = EmptyDir]
          /\ Goto(p, loc[p], <<"RemoveAll">>, "r_del")
          /\ UNCHANGED <<mu, store>>
       \/ RemoveAllFailed(p)
    /\ UNCHANGED <<heap, ncalls, hist>>

\* store.go 167-168: delete(ws.store, obj.GetUID()), return nil, Unlock.
RDelete(p) ==
    /\ pc[p] = "r_del"
    /\ mu = p
    /\ store' = [store EXCEPT ![loc[p].uid] = NoWs]
    /\ mu' = "free"
    /\ Done(p, loc[p], <<>>, NoWs, Nil, {})
    /\ UNCHANGED <<heap, fs, ncalls, hist>>

Next ==
    \/ \E p \in Procs, u \in UIDs, s \in SetupIds : CallWorkspace(p, u, s)
    \/ \E p \in Procs, u \in UIDs : CallRemove(p, u)
    \/ \E p \in Procs : MkdirAll(p)
    \/ \E p \in Procs : NewFileProducer(p)
    \/ \E p \in Procs : StatState(p)
    \/ \E p \in Procs : WriteTFState(p)
    \/ \E p \in Procs : WriteMainTF(p)
    \/ \E p \in Procs : Start(p)
    \/ \E p \in Procs : LockLookup(p)
    \/ \E p \in Procs : Unlock(p)
    \/ \E p \in Procs : StatLock(p)
    \/ \E p \in Procs : SetEnv(p)
    \/ \E p \in Procs : AppendEnv(p)
    \/ \E p \in Procs : InitSkip(p)
    \/ \E p \in Procs : InitStart(p)
    \/ \E p \in Procs : InitEnd(p)
    \/ \E p \in Procs : RLock(p)
    \/ \E p \in Procs : RLookup(p)
    \/ \E p \in Procs : RRemoveAll(p)
    \/ \E p \in Procs : RDelete(p)

Spec == Init /\ [][Next]_vars

(* ------------------- Setup.filterSensitiveInformation ------------------- *)

\* The characters of the strings filterSensitiveInformation is tried on; D
\* is a character of the marker.
Alphabet == {"a", "b", "D"}

\* The values of a configuration body: strings, the empty one among them, and
\* a value that is no string.
ConfigValues == {StrVal(s) : s \in StringsUpTo(Alphabet, MaxValLen)} \cup {IntVal}

\* strings.Replace(s, old, new, 1): the first occurrence only.
ReplaceFirst(s, old, new) ==
    IF Contains(s, old)
    THEN LET i == CHOOSE j \in 1..Len(s) :
                    HasPrefixAt(s, old, j) /\ \A h \in 1..(j - 1) : ~HasPrefixAt(s, old, h)
         IN  SubSeq(s, 1, i - 1) \o new \o SubSeq(s, i + Len(old), Len(s))
    ELSE s

\* Mutant of RedactValue: only the first occurrence of the value is replaced.
RedactFirstOnly(s, v) ==
    IF v.kind = "string" /\ v.s # <<>> THEN ReplaceFirst(s, v.s, Marker) ELSE s

\* store.go 173-175: one iteration of the range loop, for the value v.
RedactValue(s, v) ==
    IF v.kind = "string" /\ v.s # <<>> THEN ReplaceAll(s, v.s, Marker) ELSE s

\* store.go 171: a call ts.filterSensitiveInformation(s).
FilterInit ==
    /\ StoreInit
    /\ ErrIdle
    /\ fcfg \in [Keys -> ConfigValues]
    /\ fin \in StringsUpTo(Alphabet, MaxLen)
    /\ fcur = fin
    /\ fleft = Keys
    /\ fpc = "loop"

\* store.go 172-176: the range loop visits the keys in an order that Go
\* leaves unspecified.
FilterIterate(k) ==
    /\ fpc = "loop"
    /\ k \in fleft
    /\ fcur' = RedactValue(fcur, fcfg[k])
    /\ fleft' = fleft \ {k}
    /\ UNCHANGED <<fcfg, fin, fpc, storeVars, errVars>>

\* store.go 177
FilterReturn ==
    /\ fpc = "loop"
    /\ fleft = {}
    /\ fpc' = "done"
    /\ UNCHANGED <<fcfg, fin, fcur, fleft, storeVars, errVars>>

FilterNext ==
    \/ \E k \in Keys : FilterIterate(k)
    \/ FilterReturn

SpecFilter == FilterInit /\ [][FilterNext]_vars

(* ----------------------- package tfcli/errors --------------------------- *)

\* Longest chain of wrappers (errors.Wrap) around an error value.
MaxWrap == 1

\* model.OperationType: the kinds of operation.
OperationTypes == {"apply", "destroy", "refresh"}

OperationApply == "apply"

OperationDestroy == "destroy"

\* errors.go 86-88
PipelineNotStarted == "Asynchronous Terraform pipeline not started yet"

PipelineStateLocked == "Terraform CLI is still running"

PipelineStateNoStore == "Result is not available yet"

PipelineStates == {PipelineNotStarted, PipelineStateLocked, PipelineStateNoStore}

\* An error value is the chain of its links, the outermost first, each link
\* but the last wrapping the next (Unwrap); the nil error is the empty chain.
\* errors.go 57-61
NewOperationInProgressError(opType) == << [t |-> "OperationInProgressError", v |-> opType] >>

\* errors.go 98-102
NewPipelineInProgressError(state) == << [t |-> "PipelineInProgressError", v |-> state] >>

\* An error of another type, as errors.New makes them: one sentinel value.
ErrOther == << [t |-> "fundamental", v |-> "boom"] >>

\* errors.Wrap(err, msg) of github.com/pkg/errors: nil for nil, otherwise a
\* link that unwraps to err.
WrapErr(err) == IF err = <<>> THEN <<>> ELSE << [t |-> "withStack", v |-> "msg"] >> \o err

\* The error values that wrap nothing.
LeafErrors ==
    {<<>>, ErrOther}
        \cup {NewOperationInProgressError(k) : k \in OperationTypes}
        \cup {NewPipelineInProgressError(st) : st \in PipelineStates}

RECURSIVE ErrorsUpTo(_)
\* The error values with at most n wrappers.
ErrorsUpTo(n) ==
    IF n = 0 THEN LeafErrors
    ELSE ErrorsUpTo(n - 1) \cup {WrapErr(e) : e \in ErrorsUpTo(n - 1)}

\* errors.As(err, target) for a target of type *ty: the position of the first
\* link of the chain whose type is ty, which As assigns to the target; 0 when
\* there is none, for the nil error too, and As returns false.
ErrorsAs(err, ty) ==
    IF \E i \in 1..Len(err) : err[i].t = ty
    THEN CHOOSE i \in 1..Len(err) : err[i].t = ty /\ \A j \in 1..(i - 1) : err[j].t # ty
    ELSE 0

\* Mutant of IsOperationInProgress: the operation type is not compared.
IsOperationInProgressAnyKind(err, opType) ==
    ErrorsAs(err, "OperationInProgressError") # 0

\* errors.go 78-81
IsOperationInProgress(err, opType) ==
    LET i == ErrorsAs(err, "OperationInProgressError")
    IN  i # 0 /\ opType = err[i].v

\* errors.go 65-67
IsApplying(err) == IsOperationInProgress(err, OperationApply)

\* errors.go 71-73
IsDestroying(err) == IsOperationInProgress(err, OperationDestroy)

\* errors.go 50-53: the type assertion succeeds for every
\* OperationInProgressError, whatever its operation type.
OperationInProgressErrorIs(o, target) ==
    target # <<>> /\ target[1].t = "OperationInProgressError"

\* errors.go 108-111
PipelineInProgressErrorIs(o, target) ==
    target # <<>> /\ target[1].t = "PipelineInProgressError"

\* errors.Is(err, target), for a target that wraps nothing: a link of the
\* chain equals the target, or has an Is method that accepts it.
ErrorsIs(err, target) ==
    IF err = <<>> \/ target = <<>> THEN err = target
    ELSE \E i \in 1..Len(err) :
            \/ SubSeq(err, i, Len(err)) = target
            \/ err[i].t = "OperationInProgressError" /\ OperationInProgressErrorIs(err[i], target)
            \/ err[i].t = "PipelineInProgressError" /\ PipelineInProgressErrorIs(err[i], target)

\* Mutant of IsPipelineInProgress: the state of the signal is not read.
IsPipelineInProgressNoState(err) ==
    IF ErrorsAs(err, "PipelineInProgressError") # 0
    THEN <<PipelineNotStarted, TRUE>>
    ELSE <<"invalid", FALSE>>

\* errors.go 115-121
IsPipelineInProgress(err) ==
    LET i == ErrorsAs(err, "PipelineInProgressError")
    IN  IF i # 0 THEN <<err[i].v, TRUE>> ELSE <<"invalid", FALSE>>

\* An error value is handed to the classification functions.
ErrorsInit ==
    /\ StoreInit
    /\ FilterIdle
    /\ eerr \in ErrorsUpTo(MaxWrap)
    /\ eres = NoResult

CallIsOperationInProgress(opType) ==
    /\ eres = NoResult
    /\ eres' = [NoResult EXCEPT !.fn = "IsOperationInProgress", !.kind = opType,
                                !.ok = IsOperationInProgress(eerr, opType)]
    /\ UNCHANGED <<eerr, storeVars, filterVars>>

CallIsApplying ==
    /\ eres = NoResult
    /\ eres' = [NoResult EXCEPT !.fn = "IsApplying", !.ok = IsApplying(eerr)]
    /\ UNCHANGED <<eerr, storeVars, filterVars>>

CallIsDestroying ==
    /\ eres = NoResult
    /\ eres' = [NoResult EXCEPT !.fn = "IsDestroying", !.ok = IsDestroying(eerr)]
    /\ UNCHANGED <<eerr, storeVars, filterVars>>

\* errors.Is(eerr, target)
CallErrorsIs(target) ==
    /\ eres = NoResult
    /\ eres' = [NoResult EXCEPT !.fn = "errors.Is", !.target = target,
                                !.ok = ErrorsIs(eerr, target)]
    /\ UNCHANGED <<eerr, storeVars, filterVars>>

CallIsPipelineInProgress ==
    /\ eres = NoResult
    /\ eres' = [NoResult EXCEPT !.fn = "IsPipelineInProgress",
                                !.state = IsPipelineInProgress(eerr)[1],
                                !.ok = IsPipelineInProgress(eerr)[2]]
    /\ UNCHANGED <<eerr, storeVars, filterVars>>

ErrorsNext ==
    \/ \E k \in OperationTypes : CallIsOperationInProgress(k)
    \/ CallIsApplying
    \/ CallIsDestroying
    \/ \E t \in LeafErrors : CallErrorsIs(t)
    \/ CallIsPipelineInProgress

SpecErrors == ErrorsInit /\ [][ErrorsNext]_vars

(* ------------------------------ properties ----------------------------- *)

\* The steps of a call that touch the filesystem or a process.
IOSteps ==
    {"MkdirAll", "NewFileProducer", "StatState", "WriteTFState", "WriteMainTF",
     "Start", "StatLock", "Init", "RemoveAll"}

\* The positions at which the next thing a goroutine does is a filesystem or a
\* process operation; at w_initrun `terraform init` is running.
IOPositions ==
    {"w_mkdir", "w_fp", "w_stat", "w_wstate", "w_main", "w_start", "w_lstat",
     "w_initrun", "r_rm"}

\* A Workspace call has just returned a workspace.
ReturnedWorkspace == ev.p # "none" /\ ev.call.op = "Workspace" /\ ev.w # NoWs

\* A Remove call has just returned.
ReturnedRemove == ev.p # "none" /\ ev.call.op = "Remove"

\* C1: as long as Remove has not been called for an identity, all Workspace
\* calls for it that returned a workspace returned the same instance, the one
\* the registry holds, and NewWorkspace was executed exactly once for it.
C1_OneInstance ==
    \A u \in UIDs :
        ~rmCalled[u] =>
            /\ created[u] <= 1
            /\ Cardinality(got[u]) <= 1
            /\ got[u] # {} => created[u] = 1 /\ got[u] = {store[u]}

\* Two overlapping Workspace calls for one identity, with no Remove for it:
\* one has returned the instance that the other, still running, holds too.
C1_Witness ==
    \E q \in Procs :
        /\ ReturnedWorkspace
        /\ ev.p # q
        /\ ~rmCalled[ev.call.uid]
        /\ loc[q].op = "Workspace"
        /\ loc[q].uid = ev.call.uid
        /\ loc[q].w = ev.w

\* C2: no goroutine is at a filesystem or process operation while it holds
\* the registry mutex.
C2_NoIOUnderLock == \A p \in Procs : mu = p => pc[p] \notin IOPositions

\* C3: two `terraform init` commands never run in the same directory at the
\* same time.
C3_OneInitPerDir ==
    \A p, q \in Procs :
        (p # q /\ pc[p] = "w_initrun" /\ pc[q] = "w_initrun")
            => heap[loc[p].w].dir # heap[loc[q].w].dir

\* C4: when Workspace returns from `terraform init`, neither the entry it
\* logged nor the error it returns contains a non-empty string value of the
\* configuration body of its Setup.
C4_InitOutputRedacted ==
    (ev.p # "none" /\ ev.call.op = "Workspace") =>
        \A v \in Secrets(SetupOf(ev.call.setup).Configuration) :
            /\ \A e \in ev.logged : ~Contains(e, v)
            /\ ~Contains(ev.err, v)

\* No non-empty string value of the configuration body has a character of
\* the marker in it.
MarkerFree(cfg) ==
    \A v \in Secrets(cfg) : \A i \in 1..Len(v) : \A j \in 1..Len(Marker) : v[i] # Marker[j]

\* C5, as the claim states it: for every configuration body, input and
\* iteration order, the result of filterSensitiveInformation contains no
\* non-empty string value of the body, and contains the marker when a value
\* occurred in the input.
C5_NoValueInResult ==
    fpc = "done" =>
        \A v \in Secrets(fcfg) :
            /\ ~Contains(fcur, v)
            /\ Contains(fin, v) => Contains(fcur, Marker)

\* C5, amended: for every input and iteration order, the result contains no
\* non-empty string value of a configuration body whose values have no
\* character of the marker in them; and for every configuration body, it
\* contains the marker when a value occurred in the input.
C5_NoMarkerFreeValueInResult ==
    fpc = "done" =>
        /\ MarkerFree(fcfg) => \A v \in Secrets(fcfg) : ~Contains(fcur, v)
        /\ \A v \in Secrets(fcfg) : Contains(fin, v) => Contains(fcur, Marker)

\* A call has returned whose configuration body holds two different values,
\* free of the marker's characters, that both occurred in the input.
C5_Witness ==
    /\ fpc = "done"
    /\ MarkerFree(fcfg)
    /\ Cardinality(Secrets(fcfg)) = 2
    /\ \A v \in Secrets(fcfg) : Contains(fin, v)
    /\ Contains(fcur, Marker)

\* C6: when Remove returns an error (RemoveAll failed), the identity was
\* registered and the registry still holds the same Workspace for it.
C6_FailedRemoveKeepsEntry ==
    (ReturnedRemove /\ ev.err # Nil) =>
        /\ ev.call.w # NoWs
        /\ store[ev.call.uid] = ev.call.w
        /\ ev.ops = <<"RemoveAll">>

\* Remove has returned the error of RemoveAll.
C6_Witness == ReturnedRemove /\ ev.err # Nil /\ ev.call.w # NoWs

\* C7: the steps of a Remove for an identity without an entry change neither
\* the registry nor the filesystem, and it returns nil without having
\* executed a filesystem operation.
C7_RemoveUnregistered ==
    [][\A p \in Procs :
          (/\ loc[p].op = "Remove"
           /\ pc'[p] # pc[p]
           /\ \/ pc[p] = "r_lock"
              \/ pc[p] = "r_lookup" /\ store[loc[p].uid] = NoWs)
          => /\ fs' = fs
             /\ store' = store
             /\ pc[p] = "r_lookup" =>
                   /\ pc'[p] = "idle"
                   /\ ev'.p = p
                   /\ ev'.err = Nil
                   /\ ev'.ops = <<>>]_vars

\* Remove has returned nil for an identity that had no entry, while a
\* directory of that identity exists.
C7_Witness ==
    /\ ReturnedRemove
    /\ ev.call.w = NoWs
    /\ ev.err = Nil
    /\ fs[ev.call.uid].dir

\* C8: when Remove returns nil for an identity that was registered, the
\* directory of the identity does not exist and the registry has no entry
\* for it.
C8_RemoveLeavesNothing ==
    (ReturnedRemove /\ ev.err = Nil /\ ev.call.w # NoWs) =>
        /\ ~fs[ev.call.uid].dir
        /\ store[ev.call.uid] = NoWs

\* C9: MkdirAll does not fail for a directory that exists; a call goes on to
\* write terraform.tfstate exactly when its Stat found none in the directory,
\* so that only a call whose Stat said IsNotExist writes it; and every call
\* that gets past the state file writes the main file.
C9_StateFileKept ==
    [][\A p \in Procs :
          LET u == loc[p].uid
          IN  /\ (pc[p] = "w_mkdir" /\ pc'[p] # "w_mkdir" /\ fs[u].dir)
                    => pc'[p] = "w_fp"
              /\ (pc[p] = "w_stat" /\ pc'[p] \notin {"w_stat", "idle"})
                    => (pc'[p] = "w_wstate") = ~(fs[u].dir /\ fs[u].tfstate)
              /\ (pc[p] = "w_stat" /\ pc'[p] # "w_stat" /\ fs[u].dir /\ fs[u].tfstate)
                    => pc'[p] \in {"w_main", "idle"}
              /\ (Len(ops'[p]) > Len(ops[p]) /\ ops'[p][Len(ops'[p])] = "WriteTFState")
                    => loc[p].statres = "notexist"
              /\ (pc'[p] = "w_start" /\ pc[p] # "w_start")
                    => /\ pc[p] = "w_main"
                       /\ fs'[u].maintf
                       /\ ops'[p][Len(ops'[p])] = "WriteMainTF"
              /\ (pc'[p] = "idle" /\ pc[p] # "idle" /\ ev'.call.statres = "exists")
                    => \A i \in 1..Len(ev'.ops) : ev'.ops[i] # "WriteTFState"]_vars

\* A call for an identity whose directory held a state file has found it,
\* left it alone and written the main file again.
C9_Witness ==
    \E p \in Procs :
        /\ pc[p] = "w_start"
        /\ loc[p].statres = "exists"
        /\ ops[p] = <<"MkdirAll", "NewFileProducer", "StatState", "WriteMainTF">>
        /\ fs[loc[p].uid].tfstate

\* C10: Stat of .terraform.lock.hcl says IsNotExist exactly when the file is
\* absent, and the call then starts `terraform init`; when Stat finds the
\* file, the call returns the workspace and nil without having run init.
C10_InitIffNoLockFile ==
    [][\A p \in Procs :
          LET u == loc[p].uid
          IN  /\ (pc[p] = "w_lstat" /\ pc'[p] = "w_env1")
                    => (loc'[p].lstat = "notexist") = ~(fs[u].dir /\ fs[u].lock)
              /\ (pc[p] = "w_check" /\ pc'[p] # "w_check")
                    => IF loc[p].lstat = "notexist"
                       THEN /\ pc'[p] = "w_initrun"
                            /\ ops'[p] = Append(ops[p], "Init")
                       ELSE /\ pc'[p] = "idle"
                            /\ ev'.p = p
                            /\ ev'.w = loc[p].w
                            /\ ev'.w # NoWs
                            /\ ev'.err = Nil
                            /\ \A i \in 1..Len(ev'.ops) : ev'.ops[i] # "Init"]_vars

\* A call has found .terraform.lock.hcl and returned the workspace without
\* running init, after an earlier call ran it.
C10_Witness ==
    /\ ReturnedWorkspace
    /\ ev.call.lstat = "exists"
    /\ ev.err = Nil
    /\ fs[ev.call.uid].lock

\* The environment a command of a call must be given: the Env of the call's
\* Setup followed by the attachment variable of the call.
CallEnv(setup, attach) == Append(SetupOf(setup).Env, ReattachVar(attach))

\* C11: the `terraform init` command a Workspace call has started runs in the
\* directory of the workspace, with the Env of the Setup followed by the
\* attachment variable as its environment.
C11_InitCommandDirAndEnv ==
    \A p \in Procs :
        pc[p] = "w_initrun" =>
            /\ loc[p].cmd.dir = heap[loc[p].w].dir
            /\ loc[p].cmd.env = CallEnv(loc[p].setup, loc[p].attach)

\* A Workspace call for identity u is running.
WorkspaceRunning(u) == \E p \in Procs : loc[p].op = "Workspace" /\ loc[p].uid = u

\* C12: when no Workspace call for an identity is running and calls have
\* assigned the environment of its workspace, the environment is the Env of
\* the Setup of one of these calls followed by the one attachment variable
\* of that same call.
C12_EnvOfOneCall ==
    \A u \in UIDs :
        (/\ ~WorkspaceRunning(u)
         /\ store[u] # NoWs
         /\ heap[store[u]].calls # {})
            => \E c \in heap[store[u]].calls : heap[store[u]].env = CallEnv(c[1], c[2])

\* The chain of an error value has a link of type ty.
HasLink(err, ty) == \E i \in 1..Len(err) : err[i].t = ty

C14_OtherKindDoesNotMatch ==
    eres.fn = "errors.Is" =>
        \A k, k2 \in OperationTypes :
            (/\ k # k2
             /\ eerr = NewOperationInProgressError(k)
             /\ eres.target = NewOperationInProgressError(k2))
                => ~eres.ok

\* C15: IsPipelineInProgress returns for every error value; of a
\* pipeline-in-progress signal of state s it returns (s, true), and of the nil
\* error and of every error that holds no pipeline-in-progress signal it
\* returns ("invalid", false).
C15_PipelineStateClassified ==
    /\ eres = NoResult => ENABLED CallIsPipelineInProgress
    /\ eres.fn = "IsPipelineInProgress" =>
          /\ \A st \in PipelineStates :
                eerr = NewPipelineInProgressError(st) => (eres.state = st /\ eres.ok)
          /\ ~HasLink(eerr, "PipelineInProgressError") =>
                (eres.state = "invalid" /\ ~eres.ok)

\* IsPipelineInProgress has returned the state of a signal that is not the
\* first of the three states.
C15_Witness ==
    /\ eres.fn = "IsPipelineInProgress"
    /\ eerr = NewPipelineInProgressError(PipelineStateNoStore)
    /\ eres.state = PipelineStateNoStore
    /\ eres.ok

\* A Remove call for identity u holds ws.mu: the registry and the directory
\* of u are in the middle of its critical section.
RemoveHoldsLock(u) ==
    \E p \in Procs : mu = p /\ loc[p].op = "Remove" /\ loc[p].uid = u

\* C21: whenever the registry holds an entry for an identity, and no Remove
\* for that identity is inside its critical section, the directory of the
\* entry exists on the filesystem.
C21_RegisteredDirExists ==
    \A u \in UIDs :
        (store[u] # NoWs /\ ~RemoveHoldsLock(u)) => fs[heap[store[u]].dir].dir

\* C16: a Workspace call for one identity that is about to acquire ws.mu is
\* not kept waiting by a call for another identity that is at one of its
\* filesystem or process steps.
C16_OtherIdentityNotBlocked ==
    \A p, q \in Procs :
        (/\ p # q
         /\ pc[p] \in IOPositions
         /\ pc[q] = "w_lock"
         /\ loc[p].uid # loc[q].uid)
            => mu # p

\* The messages Workspace wraps the errors of its steps with (store.go 107,
\* 111, 115, 119, 123, 139, 152).
WrapMessages ==
    {"cannot create directory for workspace", "cannot create a new file producer",
     "cannot stat terraform.tfstate file", "cannot reproduce tfstate file",
     "cannot write main tf file", "cannot stat init lock file", "cannot init workspace: "}

\* A Workspace call has just returned an error.
FailedWorkspace == ev.p # "none" /\ ev.call.op = "Workspace" /\ ev.err # Nil

\* C17: every error Workspace returns is the error of the failed step under
\* a message of Workspace that names the step.
C17_ErrorsWrapped ==
    FailedWorkspace => (Len(ev.err) > 1 /\ ev.err[1] \in WrapMessages)

\* The external steps of Workspace in the order of the source.
WorkspaceSteps ==
    <<"MkdirAll", "NewFileProducer", "StatState", "WriteTFState", "WriteMainTF",
      "Start", "StatLock", "Init">>

\* The position of each step in WorkspaceSteps.
StepIndex ==
    [MkdirAll |-> 1, NewFileProducer |-> 2, StatState |-> 3, WriteTFState |-> 4,
     WriteMainTF |-> 5, Start |-> 6, StatLock |-> 7, Init |-> 8]

\* The error with which Workspace returns when the step fails: its first part.
StepError(name) ==
    CASE name = "MkdirAll" -> "cannot create directory for workspace"
      [] name = "NewFileProducer" -> "cannot create a new file producer"
      [] name = "StatState" -> "cannot stat terraform.tfstate file"
      [] name = "WriteTFState" -> "cannot reproduce tfstate file"
      [] name = "WriteMainTF" -> "cannot write main tf file"
      [] name = "Start" -> "cannot start provider"
      [] name = "StatLock" -> "cannot stat init lock file"
      [] name = "Init" -> "cannot init workspace: "

\* The steps o were executed in the order of the source, each at most once,
\* and none but the write of the state file was left out on the way.
InSourceOrder(o) ==
    /\ o # <<>> => o[1] = WorkspaceSteps[1]
    /\ \A i \in 1..(Len(o) - 1) :
          \/ StepIndex[o[i + 1]] = StepIndex[o[i]] + 1
          \/ o[i] = "StatState" /\ o[i + 1] = "WriteMainTF"

\* C18: the external steps a Workspace call has executed are in the order of
\* the source, each executed at most once; and a call that returns an error
\* returns the error of the last step it executed.
C18_StepsOnceInOrder ==
    /\ \A p \in Procs : loc[p].op = "Workspace" => InSourceOrder(ops[p])
    /\ (ev.p # "none" /\ ev.call.op = "Workspace") => InSourceOrder(ev.ops)
    /\ FailedWorkspace =>
          /\ ev.ops # <<>>
          /\ ev.err[1] = StepError(ev.ops[Len(ev.ops)])

\* A call has returned the error of Start, the sixth step, having executed
\* the five steps before it.
C18_Witness ==
    /\ FailedWorkspace
    /\ ev.w = NoWs
    /\ ev.ops = <<"MkdirAll", "NewFileProducer", "StatState", "WriteTFState",
                  "WriteMainTF", "Start">>

\* C19: when Remove returns nil for an identity and no Workspace call for the
\* identity is running, the identity has neither a directory (which only an
\* earlier Workspace call can have created) nor a registry entry.
C19_RemovedWorkspaceDestroyed ==
    (ReturnedRemove /\ ev.err = Nil /\ ~WorkspaceRunning(ev.call.uid)) =>
        /\ ~fs[ev.call.uid].dir
        /\ store[ev.call.uid] = NoWs

\* C20: no step changes the directory, the logger, the executor or the
\* redaction function of a Workspace that exists; a Workspace is constructed
\* with the redaction function of the Setup of the call that inserts it; and
\* line 141 of a call replaces the environment by the Env of its Setup.
C20_FilterFixedAtConstruction ==
    [][/\ \A i \in DOMAIN heap :
             /\ heap'[i].dir = heap[i].dir
             /\ heap'[i].logger = heap[i].logger
             /\ heap'[i].executor = heap[i].executor
             /\ heap'[i].filter = heap[i].filter
       /\ \A i \in DOMAIN heap' \ DOMAIN heap :
             \E p \in Procs :
                 /\ pc[p] = "w_lock"
                 /\ store[loc[p].uid] = NoWs
                 /\ store'[loc[p].uid] = i
                 /\ heap'[i].filter = loc[p].setup
                 /\ heap'[i].dir = loc[p].uid
       /\ \A p \in Procs :
             (pc[p] = "w_env1" /\ pc'[p] = "w_env2")
                 => heap'[loc[p].w].env = SetupOf(loc[p].setup).Env]_vars

\* A call with another Setup than the one the workspace was constructed with
\* has returned the workspace: its environment is the call's, its redaction
\* function is that of the other Setup.
C20_Witness ==
    /\ ReturnedWorkspace
    /\ heap[ev.w].filter # ev.call.setup
    /\ heap[ev.w].env = CallEnv(ev.call.setup, ev.call.attach)
    /\ store[ev.call.uid] = ev.w

\* C22: a Workspace call that returns a nil workspace and an error has put
\* no entry into the registry.
C22_FailedCallRegistersNothing ==
    (FailedWorkspace /\ ev.w = NoWs) => ~ev.call.inserted

\* C23: a call whose `terraform init` fails returns its workspace together
\* with the error and leaves the registry alone; only the delete of Remove
\* takes an entry out of the registry; a call that finds an entry for its
\* identity gets that instance; and a call whose Stat found no
\* .terraform.lock.hcl in a workspace whose init has failed starts init.
C23_InitFailureKeepsWorkspace ==
    [][/\ \A p \in Procs :
             /\ (pc[p] = "w_initrun" /\ pc'[p] = "idle" /\ ev'.err # Nil)
                   => /\ ev'.w = loc[p].w
                      /\ ev'.w # NoWs
                      /\ store' = store
             /\ (pc[p] = "w_lock" /\ pc'[p] = "w_unlock" /\ store[loc[p].uid] # NoWs)
                   => /\ loc'[p].w = store[loc[p].uid]
                      /\ store' = store
             /\ (/\ pc[p] = "w_check"
                 /\ pc'[p] # "w_check"
                 /\ heap[loc[p].w].initFailed
                 /\ loc[p].lstat = "notexist")
                   => /\ pc'[p] = "w_initrun"
                      /\ ops'[p] = Append(ops[p], "Init")
       /\ \A u \in UIDs :
             (store[u] # NoWs /\ store'[u] # store[u])
                 => \E p \in Procs : pc[p] = "r_del" /\ loc[p].uid = u /\ pc'[p] = "idle"]_vars

\* After a call's init failed in a workspace, a later call for the identity
\* has found the same instance in the registry, run init again and returned
\* the instance.
C23_Witness ==
    /\ ReturnedWorkspace
    /\ ev.err = Nil
    /\ ev.ops # <<>>
    /\ ev.ops[Len(ev.ops)] = "Init"
    /\ ~ev.call.inserted
    /\ heap[ev.w].initFailed
    /\ store[ev.call.uid] = ev.w

====
